---- MODULE Spec2Model ----
(***************************************************************************)
(* Model of src/demo.c: a GTK front end around a GStreamer pipeline        *)
(*   rtspsrc ! rtph264depay ! avdec_h264 ! identity ! xvimagesink.         *)
(*                                                                         *)
(* Three execution contexts are modelled:                                  *)
(*   - main(): the straight-line start-up and tear-down code;              *)
(*   - the GTK main loop: button/slider callbacks, the one second timer    *)
(*     and the bus signal watch that delivers queued bus messages;         *)
(*   - the pipeline's streaming threads: they commit asynchronous state    *)
(*     changes, post bus messages (each one first passes the sync handler  *)
(*     tell_window) and emit the identity's handoff signal.                *)
(***************************************************************************)
EXTENDS Integers, Sequences, FiniteSets, TLC

(* ------------------------------------------------------------------ *)
(* Bounds of the model                                                 *)
(* ------------------------------------------------------------------ *)
MaxTick == 1          \* timestamps and positions are 0..MaxTick steps
TimeStep == 1500000   \* nanoseconds per step (1.5 ms)
MaxBus == 1           \* user, timer and stages act only while fewer are queued
MaxSeek == 0          \* slider values are 0..MaxSeek (seconds)
MaxPrefix == 65       \* create_pipeline is tried with prefixes of 0..MaxPrefix characters

(* ------------------------------------------------------------------ *)
(* Program and library constants                                       *)
(* ------------------------------------------------------------------ *)
GST_STATE_VOID_PENDING == 0
GST_STATE_NULL == 1
GST_STATE_READY == 2
GST_STATE_PAUSED == 3
GST_STATE_PLAYING == 4
NsPerMs == 1000000
NsPerUs == 1000
BufSize == 64
PrefixLen == 7        \* strlen("input1-")

\* GST_CLOCK_TIME_NONE, (guint64)-1; kept symbolic, see GST_CLOCK_DIFF
CLOCK_TIME_NONE == -1

Stages == {"source", "depay", "decoder", "identity", "sink"}
\* the native handle GDK returns for the video window (opaque, non-null)
NativeHandle == 1
Times == {k * TimeStep : k \in 0..MaxTick}

VARIABLES
  pc,            \* position of main()
  windowing,     \* the build defines GDK_WINDOWING_WIN32, _QUARTZ or _X11
  made,          \* per stage: does gst_element_factory_make succeed
  linkable,      \* does gst_element_link_many succeed
  pipeline,      \* data.pipeline is non-NULL
  realized,      \* realize_cb has run
  window_handle, \* data.window_handle
  is_live,       \* data.is_live
  state,         \* data.state
  last_pts,      \* data.last_pts
  pstate,        \* the pipeline's own current state
  pending,       \* target of an asynchronous state change in progress
  bus,           \* messages queued on the bus for the signal watch
  overlay,       \* handle the renderer was given (-1: none yet)
  disposed,      \* pipeline state when gst_object_unref ran (-1: not yet)
  last,          \* the step of the main context that ran last, with what
                 \* it got back from gst_element_set_state, the seek it
                 \* sent and the line update_timeinfo printed in it
  order,         \* order in which READY->PAUSED / PAUSED->PLAYING were seen
  disturbed,     \* an error, eos, pause, stop or close has occurred
  failed,        \* a gst_element_set_state call has returned FAILURE
  links,         \* the pad links that exist between the stages
  linkfail,      \* the last rtsp_pad_added_cb printed "Failed to link"
  timer,         \* the one second timeout source is installed
  prefix,        \* strlen (pipeline_prefix)
  bufend         \* number of bytes from buf[0] that create_pipeline's
                 \* strcpy calls have reached (0: none)

vars == <<pc, windowing, made, linkable, pipeline, realized, window_handle,
          is_live, state, last_pts, pstate, pending, bus, overlay, disposed,
          last, order, disturbed, failed, links, linkfail,
          timer, prefix, bufend>>

uiVars == <<windowing, made, linkable, realized, window_handle>>
histVars == <<order, disturbed>>
linkVars == <<links, linkfail>>
nameVars == <<prefix, bufend>>

\* what update_timeinfo printed: nothing
NoDiag == [queried |-> FALSE, shown |-> FALSE, pts |-> 0, cur |-> 0,
           ms |-> 0, frac |-> 0]

\* a step cb of the main context: ret is what gst_element_set_state
\* returned to it ("NONE": no call), reported whether it told its caller or
\* the operator of a failure, seek the position it sent (-1: none)
Did(cb, ret, reported, seek, diag) ==
  [cb |-> cb, ret |-> ret, reported |-> reported, seek |-> seek,
   diag |-> diag]

(* ------------------------------------------------------------------ *)
(* Start-up: memset (&data, 0, sizeof (data))                          *)
(* ------------------------------------------------------------------ *)
\* the state memset leaves, before create_pipeline is given its prefix
Zeroed ==
  /\ pc = "start"
  /\ windowing \in BOOLEAN
  /\ made \in [Stages -> BOOLEAN]
  /\ linkable \in BOOLEAN
  /\ pipeline = FALSE
  /\ realized = FALSE
  /\ window_handle = 0
  /\ is_live = FALSE
  /\ state = GST_STATE_VOID_PENDING
  /\ last_pts = 0
  /\ pstate = GST_STATE_NULL
  /\ pending = GST_STATE_VOID_PENDING
  /\ bus = <<>>
  /\ overlay = -1
  /\ disposed = -1
  /\ last = Did("memset", "NONE", FALSE, -1, NoDiag)
  /\ order = "none"
  /\ disturbed = FALSE
  /\ failed = FALSE
  /\ links = {}
  /\ linkfail = FALSE
  /\ timer = FALSE
  /\ bufend = 0

\* main passes the prefix "input1-"
Init == Zeroed /\ prefix = PrefixLen

\* create_pipeline called with a prefix of any length up to MaxPrefix
PrefixInit == Zeroed /\ prefix \in 0..MaxPrefix

(* ------------------------------------------------------------------ *)
(* The bus                                                             *)
(* ------------------------------------------------------------------ *)
Msg(type, src, old, new) == [type |-> type, src |-> src, old |-> old, new |-> new]

\* (variant: the sync handler answers the request and passes it on)
tell_window_passes_all(message) == "GST_BUS_PASS"

\* the bus sync handler: drops prepare-window-handle, passes the rest
tell_window(message) ==
  IF message.type # "prepare-window-handle" THEN "GST_BUS_PASS"
  ELSE "GST_BUS_DROP"

\* gst_bus_post: every message first goes through the sync handler
RECURSIVE Post(_, _)
Post(b, msgs) ==
  IF msgs = <<>> THEN b
  ELSE Post(IF tell_window(Head(msgs)) = "GST_BUS_PASS"
            THEN Append(b, Head(msgs)) ELSE b, Tail(msgs))

(* ------------------------------------------------------------------ *)
(* gst_element_set_state on the pipeline                               *)
(* ------------------------------------------------------------------ *)
\* one committed step: the stages post their state-changed message (one
\* message stands for the five), then the pipeline posts its own
StepMsgs(old, new) ==
  << Msg("state-changed", "stage", old, new),
     Msg("state-changed", "pipeline", old, new) >>

RECURSIVE Trans(_, _)
Trans(a, b) ==
  IF a = b THEN <<>>
  ELSE LET n == IF a < b THEN a + 1 ELSE a - 1
       IN  StepMsgs(a, n) \o Trans(n, b)

Outcome(ret, st, pend, msgs) ==
  [ret |-> ret, pstate |-> st, pending |-> pend, msgs |-> msgs]

\* the stages that have made the step old -> new while the pipeline itself
\* has not (one message stands for them)
StageMsgs(old, new) == << Msg("state-changed", "stage", old, new) >>

\* the results gst_element_set_state (pipeline, t) can have when the
\* pipeline is in state c: downward changes complete synchronously; upward
\* changes complete, stop at READY to finish asynchronously (preroll), or
\* fail at any step, leaving the pipeline in the last state it committed.
\* The pipeline changes its stages one after the other, sink first: when
\* one of them fails, or has to finish asynchronously, the stages changed
\* before it have already posted their state-changed message
SetState(c, t) ==
  IF c = t THEN
    { Outcome("SUCCESS", c, GST_STATE_VOID_PENDING, <<>>) }
  ELSE IF t < c THEN
    { Outcome(r, t, GST_STATE_VOID_PENDING, Trans(c, t)) :
        r \in IF t = GST_STATE_PAUSED THEN {"SUCCESS", "NO_PREROLL"}
              ELSE {"SUCCESS"} }
  ELSE
    { Outcome(r, t, GST_STATE_VOID_PENDING, Trans(c, t)) :
        r \in IF t >= GST_STATE_PAUSED THEN {"SUCCESS", "NO_PREROLL"}
              ELSE {"SUCCESS"} }
    \cup
    ( IF c <= GST_STATE_READY /\ t > GST_STATE_READY
      THEN { Outcome("ASYNC", GST_STATE_READY, t,
                     Trans(c, GST_STATE_READY)
                       \o StageMsgs(GST_STATE_READY, GST_STATE_PAUSED)) }
      ELSE {} )
    \cup
    UNION { { Outcome("FAILURE", r, GST_STATE_VOID_PENDING,
                      Trans(c, r) \o part) :
                part \in { <<>>, StageMsgs(r, r + 1) } } :
            r \in c..(t - 1) }

\* a callback cb calls gst_element_set_state (pipeline, target) with the
\* messages `queued` on the bus, and drops the result
Request(cb, target, queued) ==
  \E o \in SetState(pstate, target) :
     /\ pstate' = o.pstate
     /\ pending' = o.pending
     /\ bus' = Post(queued, o.msgs)
     /\ last' = Did(cb, o.ret, FALSE, -1, NoDiag)
     /\ failed' = (failed \/ o.ret = "FAILURE")

(* ------------------------------------------------------------------ *)
(* main(), up to gtk_main                                              *)
(* ------------------------------------------------------------------ *)
\* realize_cb stores the window's native handle in one of the three
\* #if / #elif branches; a build that defines none of the macros stores
\* nothing
realize_cb ==
  /\ realized' = TRUE
  /\ window_handle' = IF windowing THEN NativeHandle ELSE window_handle

\* create_ui: gtk_widget_show_all realizes the video window, which runs
\* realize_cb; g_error aborts when no native window can be made
create_ui ==
  /\ pc = "start"
  /\ \E native \in BOOLEAN :
       IF native
       THEN /\ realize_cb
            /\ pc' = "ui"
            /\ last' = Did("realize_cb", "NONE", FALSE, -1, NoDiag)
       ELSE /\ pc' = "abort"
            /\ last' = Did("g_error", "NONE", TRUE, -1, NoDiag)
            /\ UNCHANGED <<realized, window_handle>>
  /\ UNCHANGED <<nameVars, timer, linkVars, windowing, made, linkable, pipeline, is_live, state,
                 last_pts, pstate, pending, bus, overlay, disposed, order,
                 disturbed,
                 failed>>

\* (variant: the identity is left out of the NULL test)
create_pipeline_unchecked_identity(offs, m, l) ==
  /\ offs < BufSize
  /\ m["source"] /\ m["depay"] /\ m["decoder"] /\ m["sink"]
  /\ l

\* create_pipeline returns a pipeline (TRUE) or NULL (FALSE)
create_pipeline(offs, m, l) ==
  /\ offs < BufSize
  /\ m["source"] /\ m["depay"] /\ m["decoder"] /\ m["identity"] /\ m["sink"]
  /\ l

\* a link from a source pad of stage `from` to the sink pad of stage `to`
Link(from, to) == [from |-> from, to |-> to]

\* (variant: the source is linked to the depayloader at build time)
StaticChain_with_source ==
  { Link("source", "depay"), Link("depay", "decoder"),
    Link("decoder", "identity"), Link("identity", "sink") }

\* gst_element_link_many (depay, decoder, identity, sink, NULL)
StaticChain ==
  { Link("depay", "decoder"), Link("decoder", "identity"),
    Link("identity", "sink") }

\* strlen of the names create_pipeline appends to the prefix
Suffixes ==
  [videoplayer |-> 11, source |-> 6, depay |-> 5, decoder |-> 7,
   identity |-> 8, sink |-> 4]

\* strcpy (buf + at, name) writes the name and its terminator
strcpy(at, len) == at + len + 1

Max(S) == CHOOSE x \in S : \A y \in S : y <= x

\* how far the strcpy calls of create_pipeline write, counted from buf[0]:
\* under the test offs < sizeof (buf) the prefix and then each name at
\* buf + offs, whether or not the elements can be made
BufWritten(offs) ==
  IF offs < BufSize
  THEN Max({ strcpy(0, offs) }
           \cup { strcpy(offs, Suffixes[n]) : n \in DOMAIN Suffixes })
  ELSE 0

\* main, lines 483-498: build, or print and return -1. A strcpy past the
\* end of buf is undefined: the call goes on as if nothing had happened or
\* the process is stopped (stack protector, fault)
BuildPipeline ==
  /\ pc = "ui"
  /\ bufend' = BufWritten(prefix)
  /\ \E stopped \in IF BufWritten(prefix) > BufSize THEN BOOLEAN ELSE {FALSE} :
       IF stopped
       THEN /\ pipeline' = FALSE
            /\ links' = {}
            /\ pc' = "abort"
            /\ last' = Did("create_pipeline", "NONE", FALSE, -1, NoDiag)
       ELSE /\ pipeline' = create_pipeline(prefix, made, linkable)
            /\ links' = IF pipeline' THEN StaticChain ELSE {}
            /\ pc' = IF pipeline' THEN "built" ELSE "exit"
            /\ last' = Did("create_pipeline", "NONE", ~pipeline', -1, NoDiag)
  /\ UNCHANGED <<prefix, timer, linkfail, uiVars, is_live, state, last_pts,
                 pstate, pending, bus, overlay, disposed, histVars,
                 failed>>

\* main, lines 501-520: the initial PLAYING request, the timer, gtk_main
StartPlaying ==
  /\ pc = "built"
  /\ \E o \in SetState(pstate, GST_STATE_PLAYING) :
       /\ pstate' = o.pstate
       /\ pending' = o.pending
       /\ bus' = Post(bus, o.msgs)
       /\ last' = Did("main", o.ret, o.ret = "FAILURE", -1, NoDiag)
       /\ failed' = (failed \/ o.ret = "FAILURE")
       /\ IF o.ret = "FAILURE"
          THEN /\ disposed' = o.pstate      \* gst_object_unref; return -1
               /\ pc' = "exit"
               /\ UNCHANGED <<is_live, timer>>
          ELSE /\ is_live' = IF o.ret = "NO_PREROLL" THEN TRUE ELSE is_live
               /\ timer' = TRUE            \* g_timeout_add_seconds
               /\ pc' = "mainloop"
               /\ UNCHANGED disposed
  /\ UNCHANGED <<nameVars, linkVars, uiVars, pipeline, state, last_pts, overlay, histVars>>

\* main, lines 522-524: after gtk_main returns
Teardown ==
  /\ pc = "quit"
  /\ \E o \in SetState(pstate, GST_STATE_NULL) :
       /\ pstate' = o.pstate
       /\ pending' = o.pending
       /\ bus' = Post(bus, o.msgs)
       /\ last' = Did("main", o.ret, FALSE, -1, NoDiag)
       /\ failed' = (failed \/ o.ret = "FAILURE")
       /\ disposed' = o.pstate
  /\ pc' = "exit"
  /\ UNCHANGED <<nameVars, timer, linkVars, uiVars, pipeline, is_live, state, last_pts, overlay,
                 histVars>>

(* ------------------------------------------------------------------ *)
(* The one second timer                                                *)
(* ------------------------------------------------------------------ *)
\* C integer division truncates toward zero
CDiv(a, b) == IF a >= 0 THEN a \div b ELSE -((-a) \div b)

labs(a) == IF a >= 0 THEN a ELSE -a

\* (variant: the operands taken the other way round)
GST_CLOCK_DIFF_swapped(s, e) == s - e

\* GST_CLOCK_DIFF (s, e) is (GstClockTimeDiff) (e - s); last_pts is kept as
\* its signed reading, so GST_CLOCK_TIME_NONE is -1
GST_CLOCK_DIFF(s, e) == e - s

\* the line update_timeinfo prints for last_pts = pts and position = cur
Line(pts, cur) ==
  LET diff == GST_CLOCK_DIFF(cur, pts)
  IN  [queried |-> TRUE, shown |-> TRUE, pts |-> pts, cur |-> cur,
       ms |-> CDiv(diff, NsPerMs),
       frac |-> (labs(diff) \div NsPerUs) % 1000]

\* (variant: the position is queried whatever the state)
update_timeinfo_unguarded(st, pts) ==
  { [NoDiag EXCEPT !.queried = TRUE] } \cup { Line(pts, cur) : cur \in Times }

\* update_timeinfo: the outputs it can produce when data->state is st
update_timeinfo(st, pts) ==
  IF st < GST_STATE_PAUSED THEN { NoDiag }
  ELSE { [NoDiag EXCEPT !.queried = TRUE] }        \* the query failed
       \cup { Line(pts, cur) : cur \in Times }

\* what update_timeinfo returns to the timeout source: TRUE on both paths
\* (FALSE would remove the source)
update_timeinfo_returns(st) ==
  IF st < GST_STATE_PAUSED THEN TRUE ELSE TRUE

Tick ==
  /\ pc = "mainloop" /\ timer /\ Len(bus) < MaxBus
  /\ \E d \in update_timeinfo(state, last_pts) :
       last' = Did("update_timeinfo", "NONE", FALSE, -1, d)
  /\ timer' = update_timeinfo_returns(state)
  /\ UNCHANGED <<nameVars, linkVars, pc, uiVars, pipeline, is_live, state, last_pts, pstate,
                 pending, bus, overlay, disposed, histVars,
                 failed>>

(* ------------------------------------------------------------------ *)
(* Buttons, slider, window close                                       *)
(* ------------------------------------------------------------------ *)
\* (variant: play_cb repeats main's no-preroll test)
play_cb_sets_live ==
  /\ pc = "mainloop" /\ Len(bus) < MaxBus
  /\ Request("play_cb", GST_STATE_PLAYING, bus)
  /\ is_live' = IF last'.ret = "NO_PREROLL" THEN TRUE ELSE is_live
  /\ UNCHANGED <<nameVars, timer, linkVars, pc, uiVars, pipeline, state, last_pts, overlay,
                 disposed, histVars>>

play_cb ==
  /\ pc = "mainloop" /\ Len(bus) < MaxBus
  /\ Request("play_cb", GST_STATE_PLAYING, bus)
  /\ UNCHANGED <<nameVars, timer, linkVars, pc, uiVars, pipeline, is_live, state, last_pts, overlay,
                 disposed, histVars>>

pause_cb ==
  /\ pc = "mainloop" /\ Len(bus) < MaxBus
  /\ Request("pause_cb", GST_STATE_PAUSED, bus)
  /\ disturbed' = TRUE
  /\ UNCHANGED <<nameVars, timer, linkVars, pc, uiVars, pipeline, is_live, state, last_pts, overlay,
                 disposed, order>>

stop_cb ==
  /\ pc = "mainloop" /\ Len(bus) < MaxBus
  /\ Request("stop_cb", GST_STATE_READY, bus)
  /\ disturbed' = TRUE
  /\ UNCHANGED <<nameVars, timer, linkVars, pc, uiVars, pipeline, is_live, state, last_pts, overlay,
                 disposed, order>>

\* stop_cb (NULL, data); gtk_main_quit ()
delete_event_cb ==
  /\ pc = "mainloop"
  /\ Request("delete_event_cb", GST_STATE_READY, bus)
  /\ pc' = "quit"
  /\ disturbed' = TRUE
  /\ UNCHANGED <<nameVars, timer, linkVars, uiVars, pipeline, is_live, state, last_pts, overlay,
                 disposed, order>>

\* gst_element_seek_simple with the slider value; the value is kept in
\* seconds (value * GST_SECOND is the time sent)
slider_cb ==
  /\ pc = "mainloop" /\ Len(bus) < MaxBus
  /\ \E value \in 0..MaxSeek :
       last' = Did("slider_cb", "NONE", FALSE, value, NoDiag)
  /\ UNCHANGED <<nameVars, timer, linkVars, pc, uiVars, pipeline, is_live, state, last_pts, pstate,
                 pending, bus, overlay, disposed, histVars,
                 failed>>

(* ------------------------------------------------------------------ *)
(* Bus signal watch: one queued message per main loop iteration        *)
(* ------------------------------------------------------------------ *)
Delivers(type) ==
  /\ pc = "mainloop"
  /\ bus # <<>>
  /\ Head(bus).type = type

\* (variant: error_cb also records READY itself)
error_cb_sets_state ==
  /\ Delivers("error")
  /\ Request("error_cb", GST_STATE_READY, Tail(bus))
  /\ state' = GST_STATE_READY
  /\ UNCHANGED <<nameVars, timer, linkVars, pc, uiVars, pipeline, is_live, last_pts, overlay,
                 disposed, histVars>>

error_cb ==
  /\ Delivers("error")
  /\ Request("error_cb", GST_STATE_READY, Tail(bus))
  /\ UNCHANGED <<nameVars, timer, linkVars, pc, uiVars, pipeline, is_live, state, last_pts, overlay,
                 disposed, histVars>>

eos_cb ==
  /\ Delivers("eos")
  /\ Request("eos_cb", GST_STATE_READY, Tail(bus))
  /\ UNCHANGED <<nameVars, timer, linkVars, pc, uiVars, pipeline, is_live, state, last_pts, overlay,
                 disposed, histVars>>

\* which of READY->PAUSED and PAUSED->PLAYING was observed first
NextOrder(o, old, new) ==
  IF old = GST_STATE_READY /\ new = GST_STATE_PAUSED /\ o = "none"
    THEN "paused-first"
  ELSE IF old = GST_STATE_PAUSED /\ new = GST_STATE_PLAYING /\ o = "none"
    THEN "playing-first"
  ELSE o

\* (variant: old_state is recorded instead of new_state)
state_changed_cb_old ==
  /\ Delivers("state-changed")
  /\ LET msg == Head(bus) IN
       /\ state' = msg.old
       /\ \E d \in IF msg.old = GST_STATE_READY /\ msg.new = GST_STATE_PAUSED
                    THEN update_timeinfo(msg.old, last_pts)
                    ELSE { NoDiag } :
            last' = Did("state_changed_cb", "NONE", FALSE, -1, d)
       /\ order' = NextOrder(order, msg.old, msg.new)
  /\ bus' = Tail(bus)
  /\ UNCHANGED <<nameVars, timer, linkVars, pc, uiVars, pipeline, is_live, last_pts, pstate, pending,
                 overlay, disposed, disturbed,
                 failed>>

\* (variant: the refresh is made when PLAYING is reached instead)
state_changed_cb_refresh_on_playing ==
  /\ Delivers("state-changed")
  /\ LET msg == Head(bus) IN
       /\ state' = msg.new
       /\ \E d \in IF msg.old = GST_STATE_PAUSED /\ msg.new = GST_STATE_PLAYING
                    THEN update_timeinfo(msg.new, last_pts)
                    ELSE { NoDiag } :
            last' = Did("state_changed_cb", "NONE", FALSE, -1, d)
       /\ order' = NextOrder(order, msg.old, msg.new)
  /\ bus' = Tail(bus)
  /\ UNCHANGED <<nameVars, timer, linkVars, pc, uiVars, pipeline, is_live, last_pts, pstate,
                 pending, overlay, disposed, disturbed, failed>>

state_changed_cb ==
  /\ Delivers("state-changed")
  /\ LET msg == Head(bus) IN
       /\ state' = msg.new
       /\ \E d \in IF msg.old = GST_STATE_READY /\ msg.new = GST_STATE_PAUSED
                    THEN update_timeinfo(msg.new, last_pts)
                    ELSE { NoDiag } :
            last' = Did("state_changed_cb", "NONE", FALSE, -1, d)
       /\ order' = NextOrder(order, msg.old, msg.new)
  /\ bus' = Tail(bus)
  /\ UNCHANGED <<nameVars, timer, linkVars, pc, uiVars, pipeline, is_live, last_pts, pstate, pending,
                 overlay, disposed, disturbed,
                 failed>>

\* qos_cb only prints
qos_cb ==
  /\ Delivers("qos")
  /\ bus' = Tail(bus)
  /\ last' = Did("qos_cb", "NONE", FALSE, -1, NoDiag)
  /\ UNCHANGED <<nameVars, timer, linkVars, pc, uiVars, pipeline, is_live, state, last_pts, pstate,
                 pending, overlay, disposed, histVars,
                 failed>>

(* ------------------------------------------------------------------ *)
(* The pipeline's streaming threads                                    *)
(* ------------------------------------------------------------------ *)
Streaming == pstate >= GST_STATE_PAUSED \/ pending # GST_STATE_VOID_PENDING

\* buffers and caps reach the depayloader, and through it the identity
\* and the sink, only over a link that rtsp_pad_added_cb has made
Flowing == Streaming /\ \E l \in links : l.from = "source"

\* the pipeline object exists: built and not yet unreferenced
Alive == pipeline /\ disposed = -1

\* an asynchronous state change commits its next step
AsyncStep ==
  /\ Alive
  /\ pending # GST_STATE_VOID_PENDING /\ pstate < pending
  /\ pstate' = pstate + 1
  /\ pending' = IF pstate' = pending THEN GST_STATE_VOID_PENDING ELSE pending
  /\ bus' = Post(bus, StepMsgs(pstate, pstate'))
  /\ UNCHANGED <<nameVars, timer, linkVars, pc, uiVars, pipeline, is_live, state, last_pts, overlay,
                 disposed, last, histVars,
                 failed>>

\* a stage posts an error; an asynchronous state change in progress stops
PostError ==
  /\ Alive /\ Len(bus) < MaxBus
  /\ pstate >= GST_STATE_READY
  /\ bus' = Post(bus, << Msg("error", "stage", 0, 0) >>)
  /\ pending' = GST_STATE_VOID_PENDING
  /\ disturbed' = TRUE
  /\ UNCHANGED <<nameVars, timer, linkVars, pc, uiVars, pipeline, is_live, state, last_pts, pstate,
                 overlay, disposed, last, order,
                 failed>>

PostEos ==
  /\ Alive /\ Len(bus) < MaxBus
  /\ pstate >= GST_STATE_PAUSED /\ Flowing
  /\ bus' = Post(bus, << Msg("eos", "pipeline", 0, 0) >>)
  /\ disturbed' = TRUE
  /\ UNCHANGED <<nameVars, timer, linkVars, pc, uiVars, pipeline, is_live, state, last_pts, pstate,
                 pending, overlay, disposed, last, order,
                 failed>>

PostQos ==
  /\ Alive /\ Len(bus) < MaxBus
  /\ pstate = GST_STATE_PLAYING /\ Flowing
  /\ bus' = Post(bus, << Msg("qos", "stage", 0, 0) >>)
  /\ UNCHANGED <<nameVars, timer, linkVars, pc, uiVars, pipeline, is_live, state, last_pts, pstate,
                 pending, overlay, disposed, last, histVars,
                 failed>>

\* the renderer asks for a window when it is given the stream's caps: the
\* message goes through the sync handler, which answers with
\* data->window_handle and drops it
PrepareWindowHandle ==
  /\ Alive /\ Flowing
  /\ overlay = -1
  /\ LET message == Msg("prepare-window-handle", "sink", 0, 0) IN
       /\ overlay' = IF tell_window(message) = "GST_BUS_DROP"
                     THEN window_handle ELSE overlay
       /\ bus' = Post(bus, << message >>)
  /\ UNCHANGED <<nameVars, timer, linkVars, pc, uiVars, pipeline, is_live, state, last_pts, pstate,
                 pending, disposed, last, histVars,
                 failed>>

\* the identity's handoff signal: handoff_cb stores the buffer's PTS.
\* The store runs on a streaming thread and is not synchronised with the
\* timer's load of last_pts on the main thread. The program prints gint64
\* with %li, so it is built where long has 64 bits; there the aligned
\* eight byte store and load are single instructions and a load yields
\* the value before or after a store, which is what the interleaving of
\* Handoff with Tick and state_changed_cb produces.
handoff_cb(ts) == last_pts' = ts

\* (variant: the handoff also records that the pipeline is playing)
Handoff_records_state ==
  /\ Alive /\ Flowing
  /\ \E ts \in Times \cup {CLOCK_TIME_NONE} : handoff_cb(ts)
  /\ state' = GST_STATE_PLAYING
  /\ UNCHANGED <<nameVars, timer, linkVars, pc, uiVars, pipeline, is_live, pstate,
                 pending, bus, overlay, disposed, last, histVars, failed>>

Handoff ==
  /\ Alive /\ Flowing
  /\ \E ts \in Times \cup {CLOCK_TIME_NONE} : handoff_cb(ts)
  /\ UNCHANGED <<nameVars, timer, linkVars, pc, uiVars, pipeline, is_live, state, pstate, pending, bus,
                 overlay, disposed, last, histVars,
                 failed>>

\* (variant: a pad that cannot be linked takes the depayloader's link away)
rtsp_pad_added_cb_unlinks(fits) ==
  LET linked == fits /\ \A l \in links : l.to # "depay" IN
    /\ links' = IF linked THEN links \cup { Link("source", "depay") }
                 ELSE { l \in links : l.to # "depay" }
    /\ linkfail' = ~linked

\* rtsp_pad_added_cb: gst_element_link_pads (source, name, depay, "sink")
\* links when the pad's caps fit and the depayloader's sink pad is free;
\* otherwise the callback prints and returns
rtsp_pad_added_cb(fits) ==
  LET linked == fits /\ \A l \in links : l.to # "depay" IN
    /\ links' = IF linked THEN links \cup { Link("source", "depay") }
                 ELSE links
    /\ linkfail' = ~linked

\* the source announces a new pad once it has negotiated a stream
PadAdded ==
  /\ Alive /\ Streaming
  /\ \E fits \in BOOLEAN : rtsp_pad_added_cb(fits)
  /\ UNCHANGED <<nameVars, timer, pc, uiVars, pipeline, is_live, state,
                 last_pts, pstate, pending, bus, overlay, disposed, last,
                 histVars, failed>>

(* ------------------------------------------------------------------ *)
Next ==
  \/ create_ui \/ BuildPipeline \/ StartPlaying \/ Teardown
  \/ Tick \/ play_cb \/ pause_cb \/ stop_cb \/ delete_event_cb \/ slider_cb
  \/ error_cb \/ eos_cb \/ state_changed_cb \/ qos_cb
  \/ AsyncStep \/ PostError \/ PostEos \/ PostQos
  \/ PrepareWindowHandle \/ Handoff \/ PadAdded

Spec == Init /\ [][Next]_vars

\* create_pipeline on its own, over the prefixes a caller can pass
PrefixNext == create_ui \/ BuildPipeline

PrefixSpec == PrefixInit /\ [][PrefixNext]_vars

\* the main loop keeps delivering queued messages and the streaming
\* threads keep completing an asynchronous state change
FairSpec ==
  /\ Spec
  /\ WF_vars(error_cb \/ eos_cb \/ state_changed_cb \/ qos_cb)
  /\ WF_vars(AsyncStep)

(* ================================================================== *)
(* Properties                                                          *)
(* ================================================================== *)
AllMade == \A s \in Stages : made[s]

\* main has issued its PLAYING request
Played == pipeline /\ pc \in {"mainloop", "quit", "exit"}

(* C1 (as stated): in the state right after error_cb returns, before any
   further event is handled, the recorded state is READY. *)
C1_ReadyRightAfterError ==
  last.cb = "error_cb" => state = GST_STATE_READY

(* C1 (amended): error_cb leaves the recorded state as it was and brings
   the pipeline itself to READY with no state change pending; the recorded
   state follows only when the state-changed messages are delivered. *)
C1_ErrorStopsPipelineOnly ==
  [][ last'.cb = "error_cb" =>
        /\ state' = state
        /\ pstate' = GST_STATE_READY
        /\ pending' = GST_STATE_VOID_PENDING ]_vars

C1_Witness ==
  /\ last.cb = "error_cb"
  /\ state = GST_STATE_PLAYING
  /\ pstate = GST_STATE_READY

(* C2: a seek is sent to the pipeline only when is_live is false and the
   recorded state is PAUSED or PLAYING. *)
C2_SeekOnlyWhenSeekable ==
  last.seek # -1 => (~is_live /\ state >= GST_STATE_PAUSED)

(* C3 (as stated): after main's PLAYING request, unless an error, an
   end-of-stream, a pause, a stop or a close occurs, the recorded state
   eventually is PLAYING, and READY->PAUSED is observed before
   PAUSED->PLAYING. *)
C3_EventuallyPlaying ==
  /\ Played ~> (state = GST_STATE_PLAYING \/ disturbed)
  /\ [](order # "playing-first")

(* C3 (amended): the same, provided also that no PLAYING request fails
   synchronously (main's makes the program exit, play_cb's is dropped). *)
C3_EventuallyPlayingUnlessFailed ==
  /\ Played ~> (state = GST_STATE_PLAYING \/ disturbed \/ failed)
  /\ [](order # "playing-first")

C3_Witness ==
  /\ state = GST_STATE_PLAYING
  /\ ~disturbed
  /\ ~failed
  /\ order = "paused-first"
  /\ last.cb = "state_changed_cb"

(* C4: is_live is false until main's PLAYING request, becomes true in that
   step exactly when the request returns NO_PREROLL, and no other step
   changes it. *)
C4_LiveSetOnceByMain ==
  [][ /\ pc \in {"start", "ui", "built"} => ~is_live
      /\ is_live' # is_live => pc = "built"
      /\ (pc = "built" /\ pc' = "mainloop") =>
            (is_live' <=> last'.ret = "NO_PREROLL") ]_vars

C4_Witness ==
  /\ is_live
  /\ last.cb = "error_cb"

(* C5: the delta printed for a recorded timestamp T and a queried position
   P is P - T, signed, in whole milliseconds. *)
C5_DeltaIsPositionMinusPts ==
  (last.diag.shown /\ last.diag.pts # CLOCK_TIME_NONE) =>
     last.diag.ms = CDiv(last.diag.cur - last.diag.pts, NsPerMs)

(* C6 (as stated): once PLAYING, every delta the timer prints is
   non-negative. *)
C6_DeltaNonNegative ==
  (last.cb = "update_timeinfo" /\ state = GST_STATE_PLAYING
     /\ last.diag.shown) => last.diag.ms >= 0

(* C6 (amended): once PLAYING, the delta the timer prints is non-negative
   whenever last_pts is not behind the position, and negative whenever
   last_pts is a millisecond or more behind it, as it is before the first
   handoff once the position has reached a millisecond. *)
C6_DeltaSignFollowsPts ==
  (last.cb = "update_timeinfo" /\ state = GST_STATE_PLAYING
     /\ last.diag.shown) =>
     LET d == last.diag.pts - last.diag.cur IN
       /\ d >= 0 => last.diag.ms >= 0
       /\ d <= -NsPerMs => last.diag.ms < 0

C6_Witness ==
  /\ last.cb = "update_timeinfo"
  /\ state = GST_STATE_PLAYING
  /\ last.diag.shown
  /\ last.diag.pts = 0
  /\ last.diag.ms < 0

(* C7: create_pipeline returns a pipeline exactly when all five stages
   were made and the static chain linked; otherwise main returns without
   asking the pipeline for anything. *)
C7_BuildAllOrNothing ==
  pc \notin {"start", "ui", "abort"} =>
     /\ pipeline <=> (AllMade /\ linkable)
     /\ ~pipeline => /\ pc = "exit"
                     /\ last.cb = "create_pipeline"
                     /\ pstate = GST_STATE_NULL
                     /\ bus = <<>>

C7_Witness ==
  /\ pc = "exit"
  /\ ~pipeline
  /\ ~made["identity"]
  /\ \A s \in Stages \ {"identity"} : made[s]
  /\ linkable

(* C8: whenever the pipeline is unreferenced, it is in the NULL state. *)
C8_NullBeforeUnref ==
  disposed # -1 => disposed = GST_STATE_NULL

(* C9: the renderer is given a handle, and the recorded state is PLAYING,
   only after realize_cb has stored a non-null window handle. *)
C9_HandleCapturedFirst ==
  (overlay # -1 \/ state = GST_STATE_PLAYING) =>
     /\ realized
     /\ window_handle # 0
     /\ overlay \in {-1, window_handle}

(* C10: a state-change request of main, play_cb, pause_cb or stop_cb that
   fails synchronously is reported. *)
C10_FailureReported ==
  (last.ret = "FAILURE"
     /\ last.cb \in {"main", "play_cb", "pause_cb", "stop_cb"}) =>
     last.reported

(* C11: a pipeline that create_pipeline returned has its five stages, the
   links depay -> decoder -> identity -> sink and no link from the source;
   until main asks for a state it is in NULL with nothing posted, handed
   off or announced; and a link from the source to the depayloader appears
   only in a pad-added step of the streaming source, which touches nothing
   but the links. *)
C11_BuiltIdleUntilPlayed ==
  /\ [](pc = "built" =>
          /\ pipeline
          /\ Cardinality({ s \in Stages : made[s] }) = 5
          /\ links = { Link("depay", "decoder"),
                       Link("decoder", "identity"),
                       Link("identity", "sink") }
          /\ pstate = GST_STATE_NULL
          /\ pending = GST_STATE_VOID_PENDING
          /\ state < GST_STATE_READY
          /\ bus = <<>>
          /\ last_pts = 0
          /\ ~linkfail)
  /\ [][ (pc # "ui" /\ links' # links) =>
           /\ Streaming
           /\ links' = links \cup { Link("source", "depay") }
           /\ UNCHANGED <<pc, state, is_live, last_pts, pstate, pending,
                          bus, last>> ]_vars

C11_Witness ==
  /\ Link("source", "depay") \in links
  /\ Link("depay", "decoder") \in links
  /\ state = GST_STATE_PLAYING

(* C13: a pad-added notification never removes a link; when the callback
   fails to link the pad (it prints "Failed to link") the links stay as
   they were, and in either case nothing is posted on the bus and the
   recorded state, is_live and last_pts are left alone. *)
C13_FailedLinkChangesNothing ==
  [][ (pc # "ui" /\ linkVars' # linkVars) =>
        /\ links \subseteq links'
        /\ linkfail' => links' = links
        /\ UNCHANGED <<bus, state, is_live, last_pts, pstate, pending>> ]_vars

C13_Witness ==
  /\ linkfail
  /\ Link("source", "depay") \in links
  /\ pstate = GST_STATE_PLAYING

\* the callback main connected to message::<type>
Handler(type) ==
  CASE type = "error" -> "error_cb"
    [] type = "eos" -> "eos_cb"
    [] type = "state-changed" -> "state_changed_cb"
    [] type = "qos" -> "qos_cb"
    [] OTHER -> "none"

\* b is a (not necessarily proper) prefix of c
IsPrefix(b, c) == Len(b) <= Len(c) /\ SubSeq(c, 1, Len(b)) = b

\* the signal watch hands the oldest queued message to its callback
Delivery ==
  /\ pc = "mainloop"
  /\ bus # <<>>
  /\ IsPrefix(Tail(bus), bus')
  /\ last'.cb = Handler(Head(bus).type)
  /\ Head(bus).type = "state-changed" => state' = Head(bus).new

\* no prepare-window-handle message is queued, and the queue changes only
\* by appending at its end or by a delivery of its head
BusIsFifo ==
  /\ [](\A i \in 1..Len(bus) : bus[i].type # "prepare-window-handle")
  /\ [][ bus' # bus => (IsPrefix(bus, bus') \/ Delivery) ]_vars

(* C12 (as stated): tell_window drops exactly the prepare-window-handle
   messages and answers them in the posting step; every other message is
   queued unchanged and delivered to its callback once, in the order
   posted: the oldest queued message keeps being delivered until the queue
   is empty. *)
C12_EveryMessageDelivered ==
  /\ BusIsFifo
  /\ ([]<>(bus = <<>>) \/ []<><<Delivery>>_vars)

(* C12 (amended): the same, as long as the main loop runs: what is still
   queued when gtk_main has returned, or when main has returned early, is
   never delivered. *)
C12_DeliveredWhileMainLoopRuns ==
  /\ BusIsFifo
  /\ ([]<>(bus = <<>> \/ pc # "mainloop") \/ []<><<Delivery>>_vars)

C12_Witness ==
  /\ overlay # -1
  /\ last.cb = "qos_cb"
  /\ bus # <<>>
  /\ Head(bus).type = "eos"

(* C14: the step that handles a state-changed message (old, new) sets the
   recorded state to new, and it reads the position straight away exactly
   when old is READY and new is PAUSED. *)
C14_RecordsNewAndRefreshesOnPaused ==
  [][ (Delivers("state-changed") /\ bus' = Tail(bus)
         /\ last'.cb = "state_changed_cb") =>
        /\ state' = Head(bus).new
        /\ last'.diag.queried <=> (/\ Head(bus).old = GST_STATE_READY
                                    /\ Head(bus).new = GST_STATE_PAUSED) ]_vars

C14_Witness ==
  /\ last.cb = "state_changed_cb"
  /\ last.diag.shown
  /\ state = GST_STATE_PAUSED
  /\ bus # <<>>
  /\ Head(bus).new = GST_STATE_PLAYING

(* C15: a timer tick taken while the recorded state is below PAUSED makes
   no position query and prints no delta; a tick prints a delta only when
   the recorded state is PAUSED or PLAYING and the query succeeded; every
   tick leaves the session as it was and the timer installed, so the timer
   is installed whenever the main loop runs. *)
C15_TickOnlyReads ==
  /\ [](pc = "mainloop" => timer)
  /\ [][ (last'.cb = "update_timeinfo" /\ last' # last) =>
           /\ state < GST_STATE_PAUSED =>
                 (~last'.diag.queried /\ ~last'.diag.shown)
           /\ last'.diag.shown =>
                 (state >= GST_STATE_PAUSED /\ last'.diag.queried)
           /\ timer'
           /\ UNCHANGED <<state, is_live, last_pts, window_handle, pstate,
                          pending, bus, links, pc>> ]_vars

C15_Witness ==
  /\ last.cb = "update_timeinfo"
  /\ state = GST_STATE_READY
  /\ ~last.diag.queried
  /\ timer
  /\ last_pts # 0

(* C16: last_pts is written only by a handoff of the streaming threads,
   and that step writes nothing else; the recorded state is written only
   by the main loop's delivery of a state-changed message, is_live only by
   main and window_handle only by create_ui, so no step of the streaming
   threads writes state, is_live or window_handle. *)
C16_SingleWriters ==
  [][ /\ last_pts' # last_pts =>
           /\ Alive /\ Streaming
           /\ UNCHANGED <<state, is_live, window_handle, pc, last, bus,
                          pstate, pending, overlay, links, linkfail,
                          timer, pipeline, disposed>>
      /\ state' # state =>
           /\ Delivers("state-changed")
           /\ bus' = Tail(bus)
           /\ last'.cb = "state_changed_cb"
      /\ is_live' # is_live => (pc = "built" /\ last'.cb = "main")
      /\ window_handle' # window_handle =>
           (pc = "start" /\ last'.cb = "realize_cb") ]_vars

C16_Witness ==
  /\ last_pts = TimeStep
  /\ state = GST_STATE_PLAYING
  /\ overlay # -1
  /\ is_live
  /\ last.cb = "update_timeinfo"
  /\ last.diag.pts = 0

\* every state-changed message posted so far has been delivered
StateChangesDelivered ==
  /\ pc = "mainloop"
  /\ \A i \in 1..Len(bus) : bus[i].type # "state-changed"

(* C17: the recorded state changes only when a state-changed message is
   handled (no callback writes it directly), and whenever all state-changed
   messages have been delivered it is the pipeline's own state (0 from
   memset standing for NULL), although the stages post such messages too. *)
C17_StateMirrorsPipeline ==
  StateChangesDelivered =>
     \/ state = pstate
     \/ (state = GST_STATE_VOID_PENDING /\ pstate = GST_STATE_NULL)

(* C18: whatever the length of the prefix, create_pipeline writes no byte
   past its 64 byte buffer, and when some name does not fit with its
   terminator it returns no pipeline. *)
C18_NamesStayInBuffer ==
  /\ bufend <= BufSize
  /\ ( /\ pc \in {"built", "exit"}
       /\ \E n \in DOMAIN Suffixes : prefix + Suffixes[n] + 1 > BufSize )
     => ~pipeline

====
